---- MODULE Spec2Model ----
(***************************************************************************)
(* Uptime monitor (src/monitor/monitor.py): one asyncio task per target    *)
(* runs periodic_worker, whose cycle check_once probes the URL, inserts a  *)
(* row into the SQLite table "checks", compares the status with the        *)
(* process-wide state_cache and calls notify on a change.  handle_index    *)
(* reads the 100 newest rows for the dashboard.                            *)
(*                                                                         *)
(* Every await of the source is a point where another task may run, so     *)
(* each stretch of code between two awaits is one action.  Exceptions the  *)
(* source does not catch end the task that raised them (asyncio keeps the  *)
(* exception in the abandoned Task object): pc[t] = "dead".                *)
(***************************************************************************)
EXTENDS Integers, Sequences, FiniteSets, TLC

\* ---------------------------------------------------------------- bounds
\* Cycles started by all tasks together, in the short specification.
MaxCycles == 3
\* Cycles started in the long single-target specification SpecLong.
MaxCyclesLong == 102
\* Most targets a targets file of the model lists.
MaxTargets == 2

\* ------------------------------------------------------ program constants
CHECK_INTERVAL == 30
ServerErrorFloor == 500
TelegramOkStatus == 200
DashboardLimit == 100

\* Python's None: as a status or cache entry, and as an absent integer
\* (http_code, latency, interval).
None == "None"
NoneInt == -1

\* HTTP status codes a probed endpoint answers with, latencies and clock
\* readings (environment inputs of check_once).
Codes == {200, 503}
\* Every status code of an HTTP response, for the specification SpecProbe.
AllCodes == 100 .. 599
Latencies == {50}
Timestamps == {1700000000}

\* What yaml.safe_load may return for the targets file: the value of its
\* "targets" key.  Two targets with their own URLs (one without interval),
\* two targets sharing a URL, and a file without targets.
TargetFiles ==
    { << [name |-> "api", url |-> "u1", interval |-> 10],
         [name |-> "web", url |-> "u2", interval |-> NoneInt] >>,
      << [name |-> "api", url |-> "u1", interval |-> 10],
         [name |-> "mirror", url |-> "u1", interval |-> NoneInt] >>,
      << >> }

\* The file of the long specification: one target.
SingleTargetFile == << [name |-> "api", url |-> "u1", interval |-> 10] >>

VARIABLES
    phase,        \* "boot" | "serving" | "failed": init_app's progress
    telegram_on,  \* TELEGRAM_TOKEN and TELEGRAM_CHAT_ID are both set
    email_on,     \* SMTP_HOST and EMAIL_TO are both set
    targets,      \* the list read_targets returned
    state_cache,  \* the dict state_cache: url -> None | "UP" | "DOWN"
    pc,           \* per task: where its coroutine is suspended
    local,        \* per task: check_once's status, code, latency, text_details
    db,           \* committed rows of table checks, in id order
    dbLock,       \* the task whose connection holds SQLite's write lock, or 0
    pending,      \* per task: the row of its open transaction, or None
    page,         \* the rows handle_index fetched last
    cycles,       \* number of check_once calls started so far (all tasks)
    steps,        \* per task: the steps its current cycle has completed
    tx,           \* per task: what its current cycle's notify did per transport
    outcomes,     \* per task: statuses of the probes it has completed
    notified,     \* per task: number of notify calls it has made
    observed,     \* per url: statuses compared with the cache, in order
    fired,        \* per url: whether each of those comparisons called notify
    slept         \* per task: the intervals it has slept

vars == << phase, telegram_on, email_on, targets, state_cache, pc, local, db,
           dbLock, pending, page, cycles, steps, tx, outcomes, notified,
           observed, fired, slept >>

TaskIds == 1 .. MaxTargets
Tasks == 1 .. Len(targets)
Urls == {"u1", "u2"}

\* ---------------------------------------------------------------- helpers

\* dict.get(key): None for a key the dict does not hold.
CacheGet(cache, url) == IF url \in DOMAIN cache THEN cache[url] ELSE None

\* A check_once that compares but never stores the new status.
CacheSetDropped(cache, url, value) == cache

\* state_cache[url] = value
CacheSet(cache, url, value) ==
    [u \in (DOMAIN cache) \cup {url} |-> IF u = url THEN value ELSE cache[u]]

\* A classification that counts client errors (4xx) as failures too.
ClassifyStatusClientErrors(code) == IF code < 400 THEN "UP" ELSE "DOWN"

\* "UP" if resp.status < 500 else "DOWN"
ClassifyStatus(code) == IF code < ServerErrorFloor THEN "UP" ELSE "DOWN"

\* target["interval"] with no fallback to the global default.
IntervalNoDefault(target) == target.interval

\* target.get("interval", CHECK_INTERVAL)
Interval(target) ==
    IF target.interval = NoneInt THEN CHECK_INTERVAL ELSE target.interval

\* The largest id of the table: the last row of the B-tree (rows are kept in
\* id order, see InsertRow), 0 for an empty table.
MaxId(rows) == IF rows = << >> THEN 0 ELSE rows[Len(rows)].id

\* id INTEGER PRIMARY KEY: SQLite gives an inserted row the largest id of the
\* table plus one.
NextId(rows) == MaxId(rows) + 1

NoTx == [telegram |-> "none", email |-> "none"]
NoLocal ==
    [status |-> None, code |-> NoneInt, latency |-> NoneInt, details |-> << >>]

\* ------------------------------------------------------------------ Init

Init ==
    /\ phase = "boot"
    /\ telegram_on \in BOOLEAN
    /\ email_on \in BOOLEAN
    /\ targets = << >>
    /\ state_cache = << >>
    /\ pc = << >>
    /\ local = << >>
    /\ db = << >>
    /\ dbLock = 0
    /\ pending = << >>
    /\ page = << >>
    /\ cycles = 0
    /\ steps = << >>
    /\ tx = << >>
    /\ outcomes = << >>
    /\ notified = << >>
    /\ observed = [u \in Urls |-> << >>]
    /\ fired = [u \in Urls |-> << >>]
    /\ slept = << >>

\* init_app: init_db, read_targets, seed the cache with None per target url,
\* create one periodic_worker task per target.  Each task enters check_once
\* and issues its GET as soon as the loop runs it.
InitAppWith(file) ==
    /\ phase = "boot"
    /\ phase' = "serving"
    /\ targets' = file
    /\ state_cache' = [u \in {file[i].url : i \in 1 .. Len(file)} |-> None]
    /\ pc' = [i \in 1 .. Len(file) |-> "probe"]
    /\ local' = [i \in 1 .. Len(file) |-> NoLocal]
    /\ pending' = [i \in 1 .. Len(file) |-> None]
    /\ cycles' = Len(file)
    /\ steps' = [i \in 1 .. Len(file) |-> << >>]
    /\ tx' = [i \in 1 .. Len(file) |-> NoTx]
    /\ outcomes' = [i \in 1 .. Len(file) |-> << >>]
    /\ notified' = [i \in 1 .. Len(file) |-> 0]
    /\ slept' = [i \in 1 .. Len(file) |-> << >>]
    /\ UNCHANGED << telegram_on, email_on, db, dbLock, page, observed, fired >>

InitApp == \E file \in TargetFiles : InitAppWith(file)

\* read_targets raises (no file, bad YAML, a top level that is no mapping):
\* init_app raises and web.run_app never serves.
InitAppFail ==
    /\ phase = "boot"
    /\ phase' = "failed"
    /\ UNCHANGED << telegram_on, email_on, targets, state_cache, pc, local, db,
                    dbLock, pending, page, cycles, steps, tx, outcomes,
                    notified, observed, fired, slept >>

\* ------------------------------------------------------------- check_once

Row(t, id, ts) ==
    [id |-> id, name |-> targets[t].name, url |-> targets[t].url,
     status |-> local[t].status, http_code |-> local[t].code,
     latency_ms |-> local[t].latency, ts |-> ts]

\* The table is a B-tree keyed by id: rows are kept in id order.
InsertRow(rows, row) ==
    LET k == Cardinality({i \in 1 .. Len(rows) : rows[i].id < row.id})
    IN  SubSeq(rows, 1, k) \o << row >> \o SubSeq(rows, k + 1, Len(rows))

\* A check_once that goes from the probe straight to the comparison, the
\* insert left for later.
ProbeResponseThenObserve(t, code, lat) ==
    /\ phase = "serving"
    /\ t \in Tasks
    /\ pc[t] = "probe"
    /\ local' = [local EXCEPT ![t] =
                    [status |-> ClassifyStatus(code), code |-> code,
                     latency |-> lat, details |-> << "HTTP", code, lat >>]]
    /\ outcomes' = [outcomes EXCEPT ![t] = Append(@, ClassifyStatus(code))]
    /\ steps' = [steps EXCEPT ![t] = Append(@, "probe")]
    /\ pc' = [pc EXCEPT ![t] = "observe"]
    /\ UNCHANGED << phase, telegram_on, email_on, targets, state_cache, db,
                    dbLock, pending, page, cycles, tx, notified, observed,
                    fired, slept >>

\* session.get answered: the try block of lines 92-98.
ProbeResponse(t, code, lat) ==
    /\ phase = "serving"
    /\ t \in Tasks
    /\ pc[t] = "probe"
    /\ local' = [local EXCEPT ![t] =
                    [status |-> ClassifyStatus(code), code |-> code,
                     latency |-> lat, details |-> << "HTTP", code, lat >>]]
    /\ outcomes' = [outcomes EXCEPT ![t] = Append(@, ClassifyStatus(code))]
    /\ steps' = [steps EXCEPT ![t] = Append(@, "probe")]
    /\ pc' = [pc EXCEPT ![t] = "db_connect"]
    /\ UNCHANGED << phase, telegram_on, email_on, targets, state_cache, db,
                    dbLock, pending, page, cycles, tx, notified, observed,
                    fired, slept >>

\* session.get raised (DNS, connect, TLS, timeout): lines 99-103.
ProbeException(t) ==
    /\ phase = "serving"
    /\ t \in Tasks
    /\ pc[t] = "probe"
    /\ local' = [local EXCEPT ![t] =
                    [status |-> "DOWN", code |-> NoneInt, latency |-> NoneInt,
                     details |-> << "error" >>]]
    /\ outcomes' = [outcomes EXCEPT ![t] = Append(@, "DOWN")]
    /\ steps' = [steps EXCEPT ![t] = Append(@, "probe")]
    /\ pc' = [pc EXCEPT ![t] = "db_connect"]
    /\ UNCHANGED << phase, telegram_on, email_on, targets, state_cache, db,
                    dbLock, pending, page, cycles, tx, notified, observed,
                    fired, slept >>

\* aiosqlite.connect(DB_FILE) returned a connection of this cycle's own.
DbConnect(t) ==
    /\ phase = "serving"
    /\ t \in Tasks
    /\ pc[t] = "db_connect"
    /\ pc' = [pc EXCEPT ![t] = "db_execute"]
    /\ UNCHANGED << phase, telegram_on, email_on, targets, state_cache, local,
                    db, dbLock, pending, page, cycles, steps, tx, outcomes,
                    notified, observed, fired, slept >>

\* An insert that reads the largest id without holding the write lock.
DbExecuteNoLock(t, ts) ==
    /\ phase = "serving"
    /\ t \in Tasks
    /\ pc[t] = "db_execute"
    /\ dbLock' = t
    /\ pending' = [pending EXCEPT ![t] = Row(t, NextId(db), ts)]
    /\ pc' = [pc EXCEPT ![t] = "db_commit"]
    /\ UNCHANGED << phase, telegram_on, email_on, targets, state_cache, local,
                    db, page, cycles, steps, tx, outcomes, notified, observed,
                    fired, slept >>

\* db.execute("INSERT ..."): the connection opens a transaction, which takes
\* SQLite's write lock (it waits while another connection holds it), and the
\* row gets its id.
DbExecute(t, ts) ==
    /\ phase = "serving"
    /\ t \in Tasks
    /\ pc[t] = "db_execute"
    /\ dbLock = 0
    /\ dbLock' = t
    /\ pending' = [pending EXCEPT ![t] = Row(t, NextId(db), ts)]
    /\ pc' = [pc EXCEPT ![t] = "db_commit"]
    /\ UNCHANGED << phase, telegram_on, email_on, targets, state_cache, local,
                    db, page, cycles, steps, tx, outcomes, notified, observed,
                    fired, slept >>

\* A commit that releases the lock but loses the row.
DbCommitLost(t) ==
    /\ phase = "serving"
    /\ t \in Tasks
    /\ pc[t] = "db_commit"
    /\ dbLock' = IF dbLock = t THEN 0 ELSE dbLock
    /\ pending' = [pending EXCEPT ![t] = None]
    /\ steps' = [steps EXCEPT ![t] = Append(@, "append")]
    /\ pc' = [pc EXCEPT ![t] = "observe"]
    /\ UNCHANGED << phase, telegram_on, email_on, targets, state_cache, local,
                    db, page, cycles, tx, outcomes, notified, observed, fired,
                    slept >>

\* db.commit(): the row becomes visible to every connection, the lock is
\* released.
DbCommit(t) ==
    /\ phase = "serving"
    /\ t \in Tasks
    /\ pc[t] = "db_commit"
    /\ db' = InsertRow(db, pending[t])
    /\ dbLock' = IF dbLock = t THEN 0 ELSE dbLock
    /\ pending' = [pending EXCEPT ![t] = None]
    /\ steps' = [steps EXCEPT ![t] = Append(@, "append")]
    /\ pc' = [pc EXCEPT ![t] = "observe"]
    /\ UNCHANGED << phase, telegram_on, email_on, targets, state_cache, local,
                    page, cycles, tx, outcomes, notified, observed, fired,
                    slept >>

\* A storage failure that leaves the connection open: the transaction, and
\* with it the write lock, stays with the task that ended.
DbErrorKeepsLock(t) ==
    /\ phase = "serving"
    /\ t \in Tasks
    /\ pc[t] \in {"db_connect", "db_execute", "db_commit"}
    /\ steps' = [steps EXCEPT ![t] = Append(@, "append_failed")]
    /\ pc' = [pc EXCEPT ![t] = "dead"]
    /\ UNCHANGED << phase, telegram_on, email_on, targets, state_cache, local,
                    db, dbLock, pending, page, cycles, tx, outcomes, notified,
                    observed, fired, slept >>

\* connect, execute or commit raised (sqlite3.OperationalError: unable to open
\* the file, database is locked, disk full).  Nothing in check_once or
\* periodic_worker catches it: the connection is closed, which rolls its
\* transaction back, and the exception ends the task.
DbError(t) ==
    /\ phase = "serving"
    /\ t \in Tasks
    /\ pc[t] \in {"db_connect", "db_execute", "db_commit"}
    /\ dbLock' = IF dbLock = t THEN 0 ELSE dbLock
    /\ pending' = [pending EXCEPT ![t] = None]
    /\ steps' = [steps EXCEPT ![t] = Append(@, "append_failed")]
    /\ pc' = [pc EXCEPT ![t] = "dead"]
    /\ UNCHANGED << phase, telegram_on, email_on, targets, state_cache, local,
                    db, page, cycles, tx, outcomes, notified, observed, fired,
                    slept >>

\* A compare-and-set split by a suspension: the comparison uses the entry as
\* it was before the latest write to it.
ObserveStaleRead(t) ==
    LET url == targets[t].url
        status == local[t].status
        seen == observed[url]
        old == IF Len(seen) >= 2 THEN seen[Len(seen) - 1] ELSE None
    IN  /\ phase = "serving"
        /\ t \in Tasks
        /\ pc[t] = "observe"
        /\ observed' = [observed EXCEPT ![url] = Append(@, status)]
        /\ fired' = [fired EXCEPT ![url] = Append(@, old # status)]
        /\ IF old # status
           THEN /\ state_cache' = CacheSet(state_cache, url, status)
                /\ notified' = [notified EXCEPT ![t] = @ + 1]
                /\ steps' = [steps EXCEPT ![t] = @ \o << "observe", "notify" >>]
                /\ pc' = [pc EXCEPT ![t] = "telegram"]
           ELSE /\ steps' = [steps EXCEPT ![t] = Append(@, "observe")]
                /\ pc' = [pc EXCEPT ![t] = "log"]
                /\ UNCHANGED << state_cache, notified >>
        /\ UNCHANGED << phase, telegram_on, email_on, targets, local, db,
                        dbLock, pending, page, cycles, tx, outcomes, slept >>

\* A tracker keyed by target instead of by URL: the comparison uses the
\* status of the task's own previous cycle.
ObserveOwnHistory(t) ==
    LET url == targets[t].url
        status == local[t].status
        n == Len(outcomes[t])
        old == IF n >= 2 THEN outcomes[t][n - 1] ELSE None
    IN  /\ phase = "serving"
        /\ t \in Tasks
        /\ pc[t] = "observe"
        /\ observed' = [observed EXCEPT ![url] = Append(@, status)]
        /\ fired' = [fired EXCEPT ![url] = Append(@, old # status)]
        /\ IF old # status
           THEN /\ state_cache' = CacheSet(state_cache, url, status)
                /\ notified' = [notified EXCEPT ![t] = @ + 1]
                /\ steps' = [steps EXCEPT ![t] = @ \o << "observe", "notify" >>]
                /\ pc' = [pc EXCEPT ![t] = "telegram"]
           ELSE /\ steps' = [steps EXCEPT ![t] = Append(@, "observe")]
                /\ pc' = [pc EXCEPT ![t] = "log"]
                /\ UNCHANGED << state_cache, notified >>
        /\ UNCHANGED << phase, telegram_on, email_on, targets, local, db,
                        dbLock, pending, page, cycles, tx, outcomes, slept >>

\* Lines 112-115 up to notify's first await: read the cache, compare, and on
\* a difference store the status and call notify.
Observe(t) ==
    LET url == targets[t].url
        status == local[t].status
        old == CacheGet(state_cache, url)
    IN  /\ phase = "serving"
        /\ t \in Tasks
        /\ pc[t] = "observe"
        /\ observed' = [observed EXCEPT ![url] = Append(@, status)]
        /\ fired' = [fired EXCEPT ![url] = Append(@, old # status)]
        /\ IF old # status
           THEN /\ state_cache' = CacheSet(state_cache, url, status)
                /\ notified' = [notified EXCEPT ![t] = @ + 1]
                /\ steps' = [steps EXCEPT ![t] = @ \o << "observe", "notify" >>]
                /\ pc' = [pc EXCEPT ![t] = "telegram"]
           ELSE /\ steps' = [steps EXCEPT ![t] = Append(@, "observe")]
                /\ pc' = [pc EXCEPT ![t] = "log"]
                /\ UNCHANGED << state_cache, notified >>
        /\ UNCHANGED << phase, telegram_on, email_on, targets, local, db,
                        dbLock, pending, page, cycles, tx, outcomes, slept >>

\* ------------------------------------------------------------------ notify

\* send_telegram without token or chat id: returns at once.
TelegramUnconfigured(t) ==
    /\ phase = "serving"
    /\ t \in Tasks
    /\ pc[t] = "telegram"
    /\ ~telegram_on
    /\ tx' = [tx EXCEPT ![t].telegram = "skipped"]
    /\ pc' = [pc EXCEPT ![t] = "email"]
    /\ UNCHANGED << phase, telegram_on, email_on, targets, state_cache, local,
                    db, dbLock, pending, page, cycles, steps, outcomes,
                    notified, observed, fired, slept >>

\* A send_telegram that, on a status other than 200, forgets the cached status
\* so that the next cycle notifies the same change again.
TelegramResponseRetry(t, status) ==
    /\ phase = "serving"
    /\ t \in Tasks
    /\ pc[t] = "telegram"
    /\ telegram_on
    /\ tx' = [tx EXCEPT ![t].telegram =
                 IF status # TelegramOkStatus THEN "rejected" ELSE "ok"]
    /\ state_cache' = IF status # TelegramOkStatus
                      THEN CacheSet(state_cache, targets[t].url, None)
                      ELSE state_cache
    /\ pc' = [pc EXCEPT ![t] = "email"]
    /\ UNCHANGED << phase, telegram_on, email_on, targets, local,
                    db, dbLock, pending, page, cycles, steps, outcomes,
                    notified, observed, fired, slept >>

\* send_telegram got an HTTP response: any status but 200 is logged.
TelegramResponse(t, status) ==
    /\ phase = "serving"
    /\ t \in Tasks
    /\ pc[t] = "telegram"
    /\ telegram_on
    /\ tx' = [tx EXCEPT ![t].telegram =
                 IF status # TelegramOkStatus THEN "rejected" ELSE "ok"]
    /\ pc' = [pc EXCEPT ![t] = "email"]
    /\ UNCHANGED << phase, telegram_on, email_on, targets, state_cache, local,
                    db, dbLock, pending, page, cycles, steps, outcomes,
                    notified, observed, fired, slept >>

\* sess.post raised (aiohttp.ClientError, no route to api.telegram.org):
\* send_telegram has no try, notify and check_once neither, so the exception
\* leaves notify before the email is sent and ends the task.
TelegramRaised(t) ==
    /\ phase = "serving"
    /\ t \in Tasks
    /\ pc[t] = "telegram"
    /\ telegram_on
    /\ tx' = [tx EXCEPT ![t].telegram = "raised"]
    /\ pc' = [pc EXCEPT ![t] = "dead"]
    /\ UNCHANGED << phase, telegram_on, email_on, targets, state_cache, local,
                    db, dbLock, pending, page, cycles, steps, outcomes,
                    notified, observed, fired, slept >>

\* send_email_sync without host or recipient: returns at once.
EmailUnconfigured(t) ==
    /\ phase = "serving"
    /\ t \in Tasks
    /\ pc[t] = "email"
    /\ ~email_on
    /\ tx' = [tx EXCEPT ![t].email = "skipped"]
    /\ pc' = [pc EXCEPT ![t] = "log"]
    /\ UNCHANGED << phase, telegram_on, email_on, targets, state_cache, local,
                    db, dbLock, pending, page, cycles, steps, outcomes,
                    notified, observed, fired, slept >>

\* send_email_sync in the executor: sent, or smtplib raised and the except of
\* line 58 logged it.
EmailResult(t, sent) ==
    /\ phase = "serving"
    /\ t \in Tasks
    /\ pc[t] = "email"
    /\ email_on
    /\ tx' = [tx EXCEPT ![t].email = IF sent THEN "ok" ELSE "failed"]
    /\ pc' = [pc EXCEPT ![t] = "log"]
    /\ UNCHANGED << phase, telegram_on, email_on, targets, state_cache, local,
                    db, dbLock, pending, page, cycles, steps, outcomes,
                    notified, observed, fired, slept >>

\* --------------------------------------------------------- periodic_worker

\* LOG.info of line 117, then check_once returns (its locals are gone) and
\* the task sleeps.
LogOutcome(t) ==
    /\ phase = "serving"
    /\ t \in Tasks
    /\ pc[t] = "log"
    /\ steps' = [steps EXCEPT ![t] = Append(@, "log")]
    /\ local' = [local EXCEPT ![t] = NoLocal]
    /\ tx' = [tx EXCEPT ![t] = NoTx]
    /\ pc' = [pc EXCEPT ![t] = "sleep"]
    /\ UNCHANGED << phase, telegram_on, email_on, targets, state_cache, db,
                    dbLock, pending, page, cycles, outcomes, notified,
                    observed, fired, slept >>

\* A worker that starts the next check_once without waiting for the current
\* one to return.
WakeOverlapping(t, cap) ==
    /\ phase = "serving"
    /\ t \in Tasks
    /\ pc[t] \notin {"probe", "dead"}
    /\ cycles < cap
    /\ cycles' = cycles + 1
    /\ slept' = [slept EXCEPT ![t] = Append(@, Interval(targets[t]))]
    /\ steps' = [steps EXCEPT ![t] = << >>]
    /\ pc' = [pc EXCEPT ![t] = "probe"]
    /\ UNCHANGED << phase, telegram_on, email_on, targets, state_cache, local,
                    db, dbLock, pending, page, tx, outcomes, notified,
                    observed, fired >>

\* asyncio.sleep(interval) is over: the loop calls check_once again.
Wake(t, cap) ==
    /\ phase = "serving"
    /\ t \in Tasks
    /\ pc[t] = "sleep"
    /\ cycles < cap
    /\ cycles' = cycles + 1
    /\ slept' = [slept EXCEPT ![t] = Append(@, Interval(targets[t]))]
    /\ steps' = [steps EXCEPT ![t] = << >>]
    /\ pc' = [pc EXCEPT ![t] = "probe"]
    /\ UNCHANGED << phase, telegram_on, email_on, targets, state_cache, local,
                    db, dbLock, pending, page, tx, outcomes, notified,
                    observed, fired >>

Sleep(t) == Wake(t, MaxCycles)

SleepLong(t) == Wake(t, MaxCyclesLong)

\* ------------------------------------------------------------ handle_index

\* ORDER BY id (ascending) LIMIT limit: the oldest rows.
RecentRecordsOldest(rows, limit) ==
    LET n == IF Len(rows) < limit THEN Len(rows) ELSE limit
    IN  [i \in 1 .. n |-> rows[i]]

\* The newest rows, but in ascending order of id.
RecentRecordsAscending(rows, limit) ==
    LET n == IF Len(rows) < limit THEN Len(rows) ELSE limit
    IN  [i \in 1 .. n |-> rows[Len(rows) - n + i]]

\* SELECT ... FROM checks ORDER BY id DESC LIMIT limit: a backward scan of the
\* table's B-tree that stops after limit rows.
RecentRecords(rows, limit) ==
    LET n == IF Len(rows) < limit THEN Len(rows) ELSE limit
    IN  [i \in 1 .. n |-> rows[Len(rows) - i + 1]]

HandleIndex ==
    /\ phase = "serving"
    /\ page' = RecentRecords(db, DashboardLimit)
    /\ UNCHANGED << phase, telegram_on, email_on, targets, state_cache, pc,
                    local, db, dbLock, pending, cycles, steps, tx, outcomes,
                    notified, observed, fired, slept >>

\* ---------------------------------------------------------- specifications

TelegramStatuses == {200, 400}

\* The check-and-notify engine: every task of the targets file, every failure
\* of the store and of the transports.
Next ==
    \/ InitApp
    \/ InitAppFail
    \/ \E t \in TaskIds :
          \/ \E code \in Codes, lat \in Latencies : ProbeResponse(t, code, lat)
          \/ ProbeException(t)
          \/ DbConnect(t)
          \/ \E ts \in Timestamps : DbExecute(t, ts)
          \/ DbCommit(t)
          \/ DbError(t)
          \/ Observe(t)
          \/ TelegramUnconfigured(t)
          \/ \E status \in TelegramStatuses : TelegramResponse(t, status)
          \/ TelegramRaised(t)
          \/ EmailUnconfigured(t)
          \/ \E sent \in BOOLEAN : EmailResult(t, sent)
          \/ LogOutcome(t)
          \/ Sleep(t)

Spec == Init /\ [][Next]_vars

\* One target, its first cycle, every HTTP status code, and the dashboard.
NextProbe ==
    \/ InitAppWith(SingleTargetFile)
    \/ HandleIndex
    \/ \E t \in TaskIds :
          \/ \E code \in AllCodes, lat \in Latencies : ProbeResponse(t, code, lat)
          \/ ProbeException(t)
          \/ DbConnect(t)
          \/ \E ts \in Timestamps : DbExecute(t, ts)
          \/ DbCommit(t)
          \/ DbError(t)
          \/ Observe(t)
          \/ TelegramUnconfigured(t)
          \/ \E status \in TelegramStatuses : TelegramResponse(t, status)
          \/ TelegramRaised(t)
          \/ EmailUnconfigured(t)
          \/ \E sent \in BOOLEAN : EmailResult(t, sent)
          \/ LogOutcome(t)

SpecProbe == Init /\ [][NextProbe]_vars

\* One target that answers 200 every time, no transport configured, no
\* failure of the store: the table grows past the dashboard's limit.
InitLong == Init /\ ~telegram_on /\ ~email_on

NextLong ==
    \/ InitAppWith(SingleTargetFile)
    \/ HandleIndex
    \/ \E t \in TaskIds :
          \/ \E lat \in Latencies : ProbeResponse(t, 200, lat)
          \/ DbConnect(t)
          \/ \E ts \in Timestamps : DbExecute(t, ts)
          \/ DbCommit(t)
          \/ Observe(t)
          \/ TelegramUnconfigured(t)
          \/ EmailUnconfigured(t)
          \/ LogOutcome(t)
          \/ SleepLong(t)

SpecLong == InitLong /\ [][NextLong]_vars

\* ------------------------------------------------------------- properties

Range(seq) == {seq[i] : i \in 1 .. Len(seq)}

\* The task's URL is the URL of no other target.
UniqueUrl(t) == \A o \in Tasks : o # t => targets[o].url # targets[t].url

\* Positions of a status sequence that differ from the status before them,
\* the first one being compared with Unknown.
RECURSIVE TransitionsFrom(_, _)
TransitionsFrom(prev, seq) ==
    IF seq = << >> THEN 0
    ELSE (IF Head(seq) # prev THEN 1 ELSE 0) + TransitionsFrom(Head(seq), Tail(seq))

Transitions(seq) == TransitionsFrom(None, seq)

\* The task is between two cycles, or has ended.
CycleOver(t) == pc[t] \in {"sleep", "dead"}

\* C1: for a target whose URL no other target shares, once a cycle is over
\* the number of notify calls equals the number of probe outcomes whose status
\* differs from the outcome before (the first differs from Unknown).
C1_NotifyPerTransition ==
    \A t \in Tasks :
        (UniqueUrl(t) /\ CycleOver(t)) => notified[t] = Transitions(outcomes[t])

\* C2: a comparison whose status equals the status of the comparison before it
\* for the same URL never calls notify; for a target with a URL of its own, a
\* cycle whose probe has the status of the task's probe before it has no
\* notify step.
C2_NoRepeatNotification ==
    /\ \A u \in Urls : \A i \in 2 .. Len(observed[u]) :
           observed[u][i] = observed[u][i - 1] => ~fired[u][i]
    /\ \A t \in Tasks :
           LET n == Len(outcomes[t])
           IN  (UniqueUrl(t) /\ n >= 2 /\ steps[t] # << >>
                  /\ outcomes[t][n] = outcomes[t][n - 1])
               => "notify" \notin Range(steps[t])

\* A target that stays DOWN: its second DOWN in a row has been compared and
\* the cycle has gone on to its log step.
C2_Witness ==
    \E t \in Tasks :
        /\ UniqueUrl(t)
        /\ outcomes[t] = << "DOWN", "DOWN" >>
        /\ observed[targets[t].url] = << "DOWN", "DOWN" >>
        /\ steps[t] = << "probe", "append", "observe", "log" >>

\* The request of the task's current cycle failed before any response.
FailedOutright(t) == Head(local[t].details) = "error"

\* C3: an outcome is DOWN exactly when the request failed outright or the
\* response code is 500 or more, and UP otherwise; the stored row carries the
\* same status.
C3_DownIffFailedOrServerError ==
    /\ \A t \in Tasks :
           local[t].status # None =>
               /\ local[t].status \in {"UP", "DOWN"}
               /\ local[t].status = "DOWN"
                      <=> (FailedOutright(t) \/ local[t].code >= 500)
               /\ FailedOutright(t) <=> local[t].code = NoneInt
    /\ \A i \in 1 .. Len(db) :
           db[i].status = (IF db[i].http_code = NoneInt \/ db[i].http_code >= 500
                           THEN "DOWN" ELSE "UP")

\* A 404 answer classified UP and stored.
C3_Witness ==
    \E i \in 1 .. Len(db) : db[i].http_code = 404 /\ db[i].status = "UP"

\* C4: no polling loop ever ends: whatever failed in a cycle, the task goes
\* on to its sleep.
C4_LoopNeverEnds == \A t \in Tasks : pc[t] # "dead"

\* C5: a cycle whose append failed still compares its status with the cache
\* (and notifies on a difference) before it is over.
C5_FailedAppendStillObserves ==
    \A t \in Tasks :
        ("append_failed" \in Range(steps[t]) /\ CycleOver(t))
            => "observe" \in Range(steps[t])

\* C6: once the chat transport has failed in a notify call and the call has
\* left send_telegram, the email transport is attempted and the task lives.
C6_TransportsIsolated ==
    \A t \in Tasks :
        (tx[t].telegram \in {"rejected", "raised"} /\ pc[t] \notin {"telegram", "email"})
            => (tx[t].email # "none" /\ pc[t] # "dead")

\* Where a step stands in a cycle.
StepRank(step) ==
    CASE step = "probe" -> 1
      [] step \in {"append", "append_failed"} -> 2
      [] step = "observe" -> 3
      [] step = "notify" -> 4
      [] step = "log" -> 5

\* C7: the steps of a cycle happen in the order probe, append, observe,
\* notify, log: each step after the first follows the step the order puts
\* before it (notify may be absent between observe and log), and the task is
\* suspended in the step that comes next.
C7_StepsInOrder ==
    \A t \in Tasks :
        LET s == steps[t]
        IN  /\ \A i \in 1 .. Len(s) - 1 : StepRank(s[i]) < StepRank(s[i + 1])
            /\ \A i \in 1 .. Len(s) :
                   /\ s[i] = "probe" => i = 1
                   /\ s[i] \in {"append", "append_failed"} => (i = 2 /\ s[1] = "probe")
                   /\ s[i] = "observe" => (i = 3 /\ s[2] = "append")
                   /\ s[i] = "notify" => (i = 4 /\ s[3] = "observe")
                   /\ s[i] = "log" => (i >= 4 /\ s[3] = "observe")
            /\ pc[t] = "probe" => s = << >>
            /\ pc[t] \in {"db_connect", "db_execute", "db_commit"} => s = << "probe" >>
            /\ pc[t] = "observe" => s = << "probe", "append" >>
            /\ pc[t] \in {"telegram", "email"}
                   => s = << "probe", "append", "observe", "notify" >>
            /\ pc[t] = "log" => (Len(s) >= 3 /\ s[Len(s)] \in {"observe", "notify"})
            /\ pc[t] = "sleep" => (Len(s) >= 4 /\ s[Len(s)] = "log")

\* A whole cycle with a notification.
C7_Witness ==
    \E t \in Tasks :
        steps[t] = << "probe", "append", "observe", "notify", "log" >>

\* The step is task t's commit returning.
CommitStep(t) == t \in Tasks /\ pc[t] = "db_commit" /\ pc'[t] = "observe"

\* C8: under every interleaving of the tasks, each commit adds exactly one
\* row and keeps the others; the row holds the name and url of the task's
\* target and the status, code and latency of the task's own outcome, and its
\* id is larger than every id committed before; no other step changes the
\* table, and no two rows share an id.
C8_AppendsDistinctIncreasing ==
    [][ /\ \A t \in TaskIds :
               CommitStep(t) =>
                   /\ Len(db') = Len(db) + 1
                   /\ Range(db) \subseteq Range(db')
                   /\ \E r \in Range(db') :
                          /\ \A q \in Range(db) : q.id < r.id
                          /\ r.name = targets[t].name
                          /\ r.url = targets[t].url
                          /\ r.status = local[t].status
                          /\ r.http_code = local[t].code
                          /\ r.latency_ms = local[t].latency
        /\ db' # db => \E t \in TaskIds : CommitStep(t)
        /\ \A i, j \in 1 .. Len(db') : i # j => db'[i].id # db'[j].id
      ]_vars

\* Two tasks have each committed a row, with different outcomes, and the
\* second of them is about to compare its status with the cache.
C8_Witness ==
    /\ Len(db) = 2
    /\ db[1].name # db[2].name
    /\ db[1].status # db[2].status
    /\ db[1].id < db[2].id
    /\ \E t \in Tasks : pc[t] = "observe" /\ local[t].status = db[2].status
                        /\ targets[t].name = db[2].name

\* C9 as stated: whenever the dashboard queries, every committed record is in
\* the rows it gets.
C9_EveryCommittedRecordListed ==
    [][ HandleIndex => Range(db) \subseteq Range(page') ]_vars

\* C9 as amended: whenever the dashboard queries, every committed record that
\* fewer than 100 committed records are newer than is in the rows it gets.
\* (The table is in ascending order of id, so Len(db) - i rows are newer than
\* row i.)
C9_RecentCommittedRecordListed ==
    [][ HandleIndex =>
            /\ \A i \in 1 .. Len(db) - 1 : db[i].id < db[i + 1].id
            /\ \A i \in 1 .. Len(db) :
                   Len(db) - i < 100 => \E j \in 1 .. Len(page') : page'[j] = db[i]
      ]_vars

\* The table holds more rows than the limit and the dashboard has fetched the
\* row committed last.
C9_Witness ==
    /\ Len(db) > DashboardLimit
    /\ page # << >>
    /\ page[1] = db[Len(db)]
    /\ \E t \in Tasks : pc[t] = "sleep"

Min(a, b) == IF a < b THEN a ELSE b

\* C10: the dashboard's query returns min(100, number of rows) rows, all of
\* them rows of the table, in strictly descending order of id, and every row
\* it leaves out has a smaller id than every row it returns.
C10_NewestFirstUpToLimit ==
    [][ HandleIndex =>
            LET n == Min(100, Len(db))
            IN  /\ Len(page') = n
                /\ \A j \in 1 .. n - 1 : page'[j].id > page'[j + 1].id
                /\ Range(page') \subseteq Range(db)
                /\ n > 0 => \A r \in Range(db) \ Range(page') : r.id < page'[n].id
      ]_vars

\* The table holds 101 rows and the dashboard has fetched rows 101 down to 2.
C10_Witness ==
    /\ Len(db) = 101
    /\ Len(page) = 100
    /\ page[1].id = 101
    /\ page[100].id = 2

\* The next step of task t's loop when nothing raises out of check_once.
Progress(t) ==
    \/ \E code \in Codes, lat \in Latencies : ProbeResponse(t, code, lat)
    \/ ProbeException(t)
    \/ DbConnect(t)
    \/ \E ts \in Timestamps : DbExecute(t, ts)
    \/ DbCommit(t)
    \/ Observe(t)
    \/ TelegramUnconfigured(t)
    \/ \E status \in TelegramStatuses : TelegramResponse(t, status)
    \/ EmailUnconfigured(t)
    \/ \E sent \in BOOLEAN : EmailResult(t, sent)
    \/ LogOutcome(t)
    \/ Sleep(t)

\* The task has not ended, and is not asleep at the end of the model's run.
Live(t) == pc[t] # "dead" /\ ~(pc[t] = "sleep" /\ cycles >= MaxCycles)

\* C11 as stated: wherever the other tasks are suspended, and whether or not
\* they have ended, a task that has not ended can take its next step.
C11_NeverBlocked ==
    \A t \in Tasks : \A o \in Tasks \ {t} : Live(o) => ENABLED Progress(o)

\* C11 as amended: a task that has not ended can take its next step, except
\* that its INSERT waits while another task's transaction holds SQLite's
\* write lock; that task is then about to commit, and can.
C11_BlockedOnlyByWriteLock ==
    \A o \in Tasks :
        Live(o) =>
            \/ ENABLED Progress(o)
            \/ /\ pc[o] = "db_execute"
               /\ dbLock \in Tasks \ {o}
               /\ pc[dbLock] = "db_commit"
               /\ ENABLED DbCommit(dbLock)

\* One task has ended on a failure and the other, after that cycle, has slept
\* and is probing again.
C11_Witness ==
    \E t \in Tasks : \E o \in Tasks \ {t} :
        /\ pc[t] = "dead"
        /\ Len(outcomes[t]) = 1
        /\ Len(slept[o]) = 1
        /\ pc[o] = "probe"


\* C12: notification dispatch does not block the polling loop: a task that has
\* invoked the notifier is never suspended waiting for a configured chat or
\* email transport to complete before it logs and sleeps.
C12_DispatchNeverAwaited ==
    \A t \in Tasks :
        /\ pc[t] = "telegram" => ~telegram_on
        /\ pc[t] = "email" => ~email_on

\* C13: a target list that yields zero targets is fatal: the process never
\* reaches the serving state with no targets.
C13_NeverServesZeroTargets == phase = "serving" => Len(targets) > 0


\* C14: the compare-and-set is atomic per URL key: every comparison for a URL
\* decides against the entry as it is in the state the comparison starts
\* from, stores the compared status in the same step, and leaves every other
\* key alone, whichever task (of targets sharing the URL) performs it.
C14_CompareAndSetAtomic ==
    [][\A u \in Urls :
           observed'[u] # observed[u] =>
               LET n == Len(observed'[u])
                   s == observed'[u][n]
               IN  /\ n = Len(observed[u]) + 1
                   /\ Len(fired'[u]) = n
                   /\ fired'[u][n] = (CacheGet(state_cache, u) # s)
                   /\ CacheGet(state_cache', u) = s
                   /\ \A v \in Urls \ {u} :
                          /\ CacheGet(state_cache', v) = CacheGet(state_cache, v)
                          /\ observed'[v] = observed[v]]_vars

\* Two targets sharing a URL have each compared and set the shared entry, one
\* with UP and then the other with DOWN, and both are in notify.
C14_Witness ==
    /\ Len(targets) = 2
    /\ targets[1].url = targets[2].url
    /\ observed[targets[1].url] = << "UP", "DOWN" >>
    /\ fired[targets[1].url] = << TRUE, TRUE >>
    /\ CacheGet(state_cache, targets[1].url) = "DOWN"
    /\ \A t \in Tasks : pc[t] = "telegram" /\ Len(outcomes[t]) = 1


\* A cycle of task t is in flight: check_once has been entered and has neither
\* returned nor raised.
InFlight(t) == pc[t] \notin {"sleep", "dead"}

\* C15 as stated: at every moment at most one cycle is in flight per URL.
C15_OneCyclePerUrl ==
    \A t \in Tasks : \A o \in Tasks \ {t} :
        targets[t].url = targets[o].url => ~(InFlight(t) /\ InFlight(o))

\* C15 as amended: exactly one task exists per entry of the target list, and
\* a task starts a cycle only when its previous cycle has run through to its
\* log step and its sleep is over, so at most one cycle is in flight per task.
C15_OneCyclePerTask ==
    [][/\ DOMAIN pc' = 1 .. Len(targets')
       /\ \A t \in DOMAIN pc :
              slept'[t] # slept[t] =>
                  /\ pc[t] = "sleep"
                  /\ steps[t] # << >>
                  /\ steps[t][Len(steps[t])] = "log"
                  /\ pc'[t] = "probe"]_vars

\* Two entries share a URL; the first task is in its second cycle, waiting
\* for its commit, while the second task's cycle for the same URL is in
\* flight too.
C15_Witness ==
    /\ Len(targets) = 2
    /\ targets[1].url = targets[2].url
    /\ Len(slept[1]) = 1
    /\ pc[1] = "db_commit"
    /\ pc[2] = "observe"


\* C16: every registered target URL always has a cache entry, which never
\* returns to Unknown once set, and after every cycle of a target (the only
\* one configured for its URL) the entry equals the status of that cycle's
\* outcome.
C16_CacheFollowsOutcome ==
    \A t \in Tasks :
        LET url == targets[t].url
        IN  /\ url \in DOMAIN state_cache
            /\ observed[url] # << >> => state_cache[url] # None
            /\ (UniqueUrl(t) /\ CycleOver(t) /\ outcomes[t] # << >>) =>
                   state_cache[url] = outcomes[t][Len(outcomes[t])]


\* C17 as stated: every probe of a target, the first included, is preceded by
\* a sleep, so a task has never completed more probes than sleeps.
C17_EveryProbeAfterSleep ==
    \A t \in Tasks : Len(outcomes[t]) <= Len(slept[t])

\* C17 as amended: the first probe is issued at startup with no sleep before
\* it, every later probe is preceded by exactly one sleep, and every sleep
\* lasts the target's configured interval, or the global default of 30 when
\* the target has none, whatever the outcomes were.
C17_CheckThenSleepCadence ==
    \A t \in Tasks :
        /\ pc[t] = "probe" => Len(outcomes[t]) = Len(slept[t])
        /\ pc[t] # "probe" => Len(outcomes[t]) = Len(slept[t]) + 1
        /\ \A i \in 1 .. Len(slept[t]) :
               slept[t][i] = IF targets[t].interval = NoneInt
                             THEN CHECK_INTERVAL
                             ELSE targets[t].interval

\* A target with no interval of its own was probed DOWN at startup, slept the
\* default interval once, and has been probed DOWN again.
C17_Witness ==
    \E t \in Tasks :
        /\ targets[t].interval = NoneInt
        /\ slept[t] = << CHECK_INTERVAL >>
        /\ outcomes[t] = << "DOWN", "DOWN" >>


\* C18: targets with the same URL share one cache entry: a comparison for a
\* URL, by whichever task, fires a notification if and only if its status
\* differs from the status of the previous comparison for that URL (Unknown
\* before the first), and the entry holds the status compared last.
C18_SharedEntryDecides ==
    \A u \in Urls :
        /\ Len(fired[u]) = Len(observed[u])
        /\ \A i \in 1 .. Len(observed[u]) :
               fired[u][i] <=>
                   observed[u][i] # (IF i = 1 THEN None ELSE observed[u][i - 1])
        /\ CacheGet(state_cache, u) =
               IF observed[u] = << >>
               THEN None
               ELSE observed[u][Len(observed[u])]

\* Two targets share a URL and both saw it UP in their first cycle: the first
\* notified the change, the second compared UP with UP and stayed silent.
C18_Witness ==
    /\ Len(targets) = 2
    /\ targets[1].url = targets[2].url
    /\ outcomes = << << "UP" >>, << "UP" >> >>
    /\ notified = << 1, 0 >>
    /\ fired[targets[1].url] = << TRUE, FALSE >>
    /\ pc[2] = "log"


\* C19: a failed delivery is never retried: notify is called only by a step
\* that finds the entry different from the cycle's status and stores that
\* status before any transport has been tried, and a transport's result,
\* whatever it is, changes neither the cache nor the number of notify calls
\* and never leads back to a transport already tried.
C19_FailedDeliveryNotRetried ==
    [][\A t \in DOMAIN pc :
           LET url == targets[t].url
           IN  /\ (pc[t] \in {"telegram", "email"}
                     /\ (tx'[t] # tx[t] \/ pc'[t] # pc[t])) =>
                       /\ state_cache' = state_cache
                       /\ notified' = notified
                       /\ pc[t] = "telegram" => pc'[t] \in {"email", "dead"}
                       /\ pc[t] = "email" => pc'[t] = "log"
               /\ notified'[t] # notified[t] =>
                       /\ notified'[t] = notified[t] + 1
                       /\ pc[t] = "observe"
                       /\ tx[t] = NoTx
                       /\ CacheGet(state_cache, url) # local[t].status
                       /\ CacheGet(state_cache', url) = local[t].status
                       /\ pc'[t] = "telegram"]_vars

\* The first target's notification was rejected by the chat API and its email
\* failed; the second target, with the same URL, has since compared the same
\* status with the entry and has not notified.
C19_Witness ==
    /\ Len(targets) = 2
    /\ targets[1].url = targets[2].url
    /\ tx[1] = [telegram |-> "rejected", email |-> "failed"]
    /\ pc[1] = "log"
    /\ steps[2] = << "probe", "append", "observe" >>
    /\ notified = << 1, 0 >>


\* The positions in the table of the rows written for task t's target.
RowsOf(t) ==
    {i \in 1 .. Len(db) :
        db[i].name = targets[t].name /\ db[i].url = targets[t].url}

\* The number of notify calls made by the first n tasks for URL u.
RECURSIVE NotifiedFor(_, _)
NotifiedFor(u, n) ==
    IF n = 0
    THEN 0
    ELSE NotifiedFor(u, n - 1) + (IF targets[n].url = u THEN notified[n] ELSE 0)

\* C20: every notification is backed by history: a cycle that has called
\* notify has committed, earlier in the same cycle, a record with its
\* target's name and URL and the notified status (the target's newest record,
\* one per probe so far); and for every URL the notify calls never outnumber
\* the committed records.
C20_NotificationBackedByHistory ==
    /\ \A t \in Tasks :
           "notify" \in Range(steps[t]) =>
               /\ Cardinality(RowsOf(t)) = Len(outcomes[t])
               /\ \E i \in RowsOf(t) :
                      /\ \A j \in RowsOf(t) : j <= i
                      /\ db[i].status = outcomes[t][Len(outcomes[t])]
                      /\ pc[t] \in {"telegram", "email"} =>
                             db[i].status = local[t].status
    /\ \A u \in Urls :
           NotifiedFor(u, Len(targets)) <=
               Cardinality({i \in 1 .. Len(db) : db[i].url = u})

\* A cycle found its target DOWN, committed the only record of the table, and
\* is waiting in notify for the chat API.
C20_Witness ==
    \E t \in Tasks :
        /\ pc[t] = "telegram"
        /\ local[t].status = "DOWN"
        /\ notified[t] = 1
        /\ Len(db) = 1
        /\ db[1].url = targets[t].url
        /\ db[1].status = "DOWN"

====
